---- MODULE Spec2Model ----
(***************************************************************************)
(* Model of Server/main.go: the registry of agent connections (clients,    *)
(* clientsMux), the per-connection handler (handleClientConnection and the *)
(* read loop handleClientMessages), and the control surface that looks up  *)
(* and writes to agents (sendCommand, toggleStream, getClients,            *)
(* handleClientStream, handleAdminConnection).                             *)
(*                                                                         *)
(* One goroutine per accepted agent socket (H(c)) and one per control      *)
(* request (W(w)).  A step is one blocking or shared-memory operation of   *)
(* the code; purely local statements are folded into the step before them. *)
(***************************************************************************)
EXTENDS Integers, FiniteSets, Sequences, TLC

\* ---------------------------------------------------------------- bounds
MaxGoroutines == 3     \* handler and request goroutines started during a run
MaxAdminMsgs == 1      \* messages an admin connection sends before it closes

Conns     == {1, 2}    \* the agent sockets a run tells apart
Reqs      == {1, 2}    \* the control-surface requests a run tells apart
Times     == {0, 1}    \* the readings of the wall clock a run tells apart
Hostnames == {"host"}
OSNames   == {"windows"} \* the os an agent names in its client-info message

\* ------------------------------------------------------------ identities
H(c) == <<"h", c>>                 \* the goroutine serving agent socket c
W(w) == <<"w", w>>                 \* the goroutine serving request w
NoOne == <<"none", 0>>             \* an unlocked mutex

\* fmt.Sprintf("%s-%d", hostname, UnixNano): the pair determines the string
MakeID(h, t) == <<h, t>>
NoID      == <<"", -1>>
UnknownID == <<"unknown-id", 0>>
NoOS      == ""
AgentIDs  == {MakeID(h, t) : h \in Hostnames, t \in Times}
TargetIDs == AgentIDs \cup {UnknownID}

StatusOK == 200
StatusBadRequest == 400
StatusNotFound == 404
StatusInternalServerError == 500

Kinds == {"sendCommand", "toggleStream", "getClients", "handleClientStream",
          "handleAdminConnection"}
MsgKinds == {"cmd", "start", "stop"}

\* what an agent sends after the handshake: a well-formed response (status
\* system_info, data {"os": ReportedOS}) or bytes json.Unmarshal rejects
Inbound    == {"system_info", "garbage"}
ReportedOS == "linux"

VARIABLES
    clients,      \* the registry map: id -> connection
    clientsMux,   \* the RWMutex: [writer, readers]
    hpc,          \* per agent socket: where its handler goroutine is
    sockOpen,     \* per agent socket: accepted, not yet Close()d by the server
    remoteClosed, \* per agent socket: the agent has closed its side
    msg,          \* per agent socket: the message ReadMessage last returned
    cid,          \* ClientConnection.ID
    os,           \* ClientConnection.OS
    lastSeen,     \* ClientConnection.LastSeen
    isStreaming,  \* ClientConnection.IsStreaming
    mu,           \* ClientConnection.mu: its holder
    wire,         \* per agent socket: whole messages written to it, by kind
    closes,       \* per agent socket: Conn.Close() calls made by the server
    deletes,      \* per agent socket: delete(clients, ID) calls of its cleanup
    lastToggle,   \* per connection: req.Start of the last toggleStream in mu
    everRegistered, \* ids that were ever inserted into clients
    req           \* per request: its goroutine's locals

connVars == <<hpc, sockOpen, remoteClosed, msg, cid, os, lastSeen,
              isStreaming, closes, deletes>>
vars == <<clients, clientsMux, hpc, sockOpen, remoteClosed, msg, cid, os,
          lastSeen, isStreaming, mu, wire, closes, deletes, lastToggle,
          everRegistered, req>>

\* ------------------------------------------------------------- registry
Has(id) == id \in DOMAIN clients
MapInsert(m, id, c) == [k \in DOMAIN m \cup {id} |-> IF k = id THEN c ELSE m[k]]
MapDelete(m, id) == [k \in DOMAIN m \ {id} |-> m[k]]

\* sync.RWMutex
CanRLock == clientsMux.writer = NoOne
CanLock  == clientsMux.writer = NoOne /\ clientsMux.readers = {}
RLock(g)   == [clientsMux EXCEPT !.readers = @ \cup {g}]
RUnlock(g) == [clientsMux EXCEPT !.readers = @ \ {g}]
Lock(g)    == [clientsMux EXCEPT !.writer = g]
Unlock     == [clientsMux EXCEPT !.writer = NoOne]

\* time.Now(): a reading of the wall clock, which the code does not control:
\* two readings may be equal, and the system clock may be stepped
ClockReadings == Times

IdleReq == [pc |-> "idle", kind |-> "none", target |-> NoID, start |-> FALSE,
            cl |-> 0, resp |-> 0, msgs |-> 0]

\* a request that has been answered with a status code; what it was about
\* (the id it did not find, or the connection it wrote to) stays on record
Answered(r, status) == [r EXCEPT !.pc = "done", !.resp = status]
NewReq(kind) == [IdleReq EXCEPT !.kind = kind]

Init ==
    /\ clients = [k \in {} |-> 0]
    /\ clientsMux = [writer |-> NoOne, readers |-> {}]
    /\ hpc = [c \in Conns |-> "init"]
    /\ sockOpen = [c \in Conns |-> FALSE]
    /\ remoteClosed = [c \in Conns |-> FALSE]
    /\ msg = [c \in Conns |-> "none"]
    /\ cid = [c \in Conns |-> NoID]
    /\ os = [c \in Conns |-> NoOS]
    /\ lastSeen = [c \in Conns |-> 0]
    /\ isStreaming = [c \in Conns |-> FALSE]
    /\ mu = [c \in Conns |-> NoOne]
    /\ wire = [c \in Conns |-> [k \in MsgKinds |-> 0]]
    /\ closes = [c \in Conns |-> 0]
    /\ deletes = [c \in Conns |-> 0]
    /\ lastToggle = [c \in Conns |-> FALSE]
    /\ everRegistered = {}
    /\ req = [w \in Reqs |-> IdleReq]

\* ------------------------------------------------- handleClientConnection
\* Agent sockets are numbered in the order they are accepted.
Started ==
    Cardinality({c \in Conns : hpc[c] # "init"})
        + Cardinality({w \in Reqs : req[w].pc # "idle"})

NextToAccept(c) ==
    /\ hpc[c] = "init"
    /\ IF c = 1 THEN TRUE ELSE hpc[c - 1] # "init"
    /\ Started < MaxGoroutines

\* upgrader.Upgrade (lines 83-87)
Upgrade(c) ==
    /\ NextToAccept(c)
    /\ \/ /\ hpc' = [hpc EXCEPT ![c] = "readinfo"]
          /\ sockOpen' = [sockOpen EXCEPT ![c] = TRUE]
       \/ /\ hpc' = [hpc EXCEPT ![c] = "upgfail"]
          /\ UNCHANGED sockOpen
    /\ UNCHANGED <<clients, clientsMux, remoteClosed, msg, cid, os, lastSeen,
                   isStreaming, mu, wire, closes, deletes, lastToggle,
                   everRegistered, req>>

\* the handshake error path closing the socket but not returning
ReadInfoFail_NoReturn(c) ==
    /\ hpc[c] = "readinfo"
    /\ hpc' = [hpc EXCEPT ![c] = "reglock"]
    /\ sockOpen' = [sockOpen EXCEPT ![c] = FALSE]
    /\ closes' = [closes EXCEPT ![c] = @ + 1]
    /\ UNCHANGED <<clients, clientsMux, remoteClosed, msg, cid, os, lastSeen,
                   isStreaming, mu, wire, deletes, lastToggle, everRegistered,
                   req>>

\* conn.ReadJSON(&clientInfo) fails: conn.Close() and return (lines 96-100)
ReadInfoFail(c) ==
    /\ hpc[c] = "readinfo"
    /\ hpc' = [hpc EXCEPT ![c] = "rejected"]
    /\ sockOpen' = [sockOpen EXCEPT ![c] = FALSE]
    /\ closes' = [closes EXCEPT ![c] = @ + 1]
    /\ UNCHANGED <<clients, clientsMux, remoteClosed, msg, cid, os, lastSeen,
                   isStreaming, mu, wire, deletes, lastToggle, everRegistered,
                   req>>

\* conn.ReadJSON succeeds; the ClientConnection is built (lines 96-111)
ReadInfoOk(c) ==
    /\ hpc[c] = "readinfo"
    /\ ~remoteClosed[c]
    /\ \E h \in Hostnames, t \in ClockReadings, ls \in ClockReadings :
          /\ cid' = [cid EXCEPT ![c] = MakeID(h, t)]
          /\ lastSeen' = [lastSeen EXCEPT ![c] = ls]
    /\ \E o \in OSNames : os' = [os EXCEPT ![c] = o]
    /\ isStreaming' = [isStreaming EXCEPT ![c] = FALSE]
    /\ lastToggle' = [lastToggle EXCEPT ![c] = FALSE]
    /\ hpc' = [hpc EXCEPT ![c] = "reglock"]
    /\ UNCHANGED <<clients, clientsMux, sockOpen, remoteClosed, msg, mu, wire,
                   closes, deletes, everRegistered, req>>

\* clientsMux.Lock() (line 113)
RegLock(c) ==
    /\ hpc[c] = "reglock"
    /\ CanLock
    /\ clientsMux' = Lock(H(c))
    /\ hpc' = [hpc EXCEPT ![c] = "insert"]
    /\ UNCHANGED <<clients, sockOpen, remoteClosed, msg, cid, os, lastSeen,
                   isStreaming, mu, wire, closes, deletes, lastToggle,
                   everRegistered, req>>

\* clients[clientID] = client; Unlock; go handleClientMessages (lines 114-120)
Register(c) ==
    /\ hpc[c] = "insert"
    /\ clients' = MapInsert(clients, cid[c], c)
    /\ everRegistered' = everRegistered \cup {cid[c]}
    /\ clientsMux' = Unlock
    /\ hpc' = [hpc EXCEPT ![c] = "read"]
    /\ UNCHANGED <<sockOpen, remoteClosed, msg, cid, os, lastSeen,
                   isStreaming, mu, wire, closes, deletes, lastToggle, req>>

\* --------------------------------------------------- handleClientMessages
\* client.Conn.ReadMessage() returns a message (line 134)
ReadMessage(c) ==
    /\ hpc[c] = "read"
    /\ sockOpen[c] /\ ~remoteClosed[c]
    /\ \E m \in Inbound : msg' = [msg EXCEPT ![c] = m]
    /\ hpc' = [hpc EXCEPT ![c] = "decode"]
    /\ UNCHANGED <<clients, clientsMux, sockOpen, remoteClosed, cid, os,
                   lastSeen, isStreaming, mu, wire, closes, deletes,
                   lastToggle, everRegistered, req>>

\* ReadMessage returns an error: break, and the deferred cleanup starts with
\* client.Conn.Close() (lines 135-138, 126)
ReadError(c) ==
    /\ hpc[c] = "read"
    /\ remoteClosed[c] \/ ~sockOpen[c]
    /\ sockOpen' = [sockOpen EXCEPT ![c] = FALSE]
    /\ closes' = [closes EXCEPT ![c] = @ + 1]
    /\ msg' = [msg EXCEPT ![c] = "none"]
    /\ hpc' = [hpc EXCEPT ![c] = "dellock"]
    /\ UNCHANGED <<clients, clientsMux, remoteClosed, cid, os, lastSeen,
                   isStreaming, mu, wire, deletes, lastToggle, everRegistered,
                   req>>

\* the read loop leaving the loop on a decode failure instead of continuing
Decode_BreakOnError(c) ==
    /\ hpc[c] = "decode"
    /\ hpc' = [hpc EXCEPT ![c] =
                 IF msg[c] = "garbage" THEN "dellock" ELSE "lockmu"]
    /\ sockOpen' = [sockOpen EXCEPT ![c] = msg[c] # "garbage"]
    /\ closes' = [closes EXCEPT ![c] = IF msg[c] = "garbage" THEN @ + 1 ELSE @]
    /\ UNCHANGED <<clients, clientsMux, remoteClosed, msg, cid, os, lastSeen,
                   isStreaming, mu, wire, deletes, lastToggle, everRegistered,
                   req>>

\* json.Unmarshal(message, &response) (lines 140-144)
Decode(c) ==
    /\ hpc[c] = "decode"
    /\ hpc' = [hpc EXCEPT ![c] =
                 IF msg[c] = "garbage" THEN "read" ELSE "lockmu"]
    /\ UNCHANGED <<clients, clientsMux, sockOpen, remoteClosed, msg, cid, os,
                   lastSeen, isStreaming, mu, wire, closes, deletes,
                   lastToggle, everRegistered, req>>

\* the read loop going on to write LastSeen without client.mu.Lock()
LockLastSeen_NoLock(c) ==
    /\ hpc[c] = "lockmu"
    /\ hpc' = [hpc EXCEPT ![c] = "setLastSeen"]
    /\ UNCHANGED <<clients, clientsMux, sockOpen, remoteClosed, msg, cid, os,
                   lastSeen, isStreaming, mu, wire, closes, deletes,
                   lastToggle, everRegistered, req>>

\* client.mu.Lock() (line 147)
LockLastSeen(c) ==
    /\ hpc[c] = "lockmu"
    /\ mu[c] = NoOne
    /\ mu' = [mu EXCEPT ![c] = H(c)]
    /\ hpc' = [hpc EXCEPT ![c] = "setLastSeen"]
    /\ UNCHANGED <<clients, clientsMux, sockOpen, remoteClosed, msg, cid, os,
                   lastSeen, isStreaming, wire, closes, deletes, lastToggle,
                   everRegistered, req>>

\* client.LastSeen = time.Now(); client.mu.Unlock() (lines 148-151)
SetLastSeen(c) ==
    /\ hpc[c] = "setLastSeen"
    /\ \E t \in ClockReadings : lastSeen' = [lastSeen EXCEPT ![c] = t]
    /\ mu' = [mu EXCEPT ![c] = NoOne]
    /\ hpc' = [hpc EXCEPT ![c] = "read"]
    /\ UNCHANGED <<clients, clientsMux, sockOpen, remoteClosed, msg, cid, os,
                   isStreaming, wire, closes, deletes, lastToggle,
                   everRegistered, req>>

\* the deferred cleanup: clientsMux.Lock() (line 127)
CleanupLock(c) ==
    /\ hpc[c] = "dellock"
    /\ CanLock
    /\ clientsMux' = Lock(H(c))
    /\ hpc' = [hpc EXCEPT ![c] = "delete"]
    /\ UNCHANGED <<clients, sockOpen, remoteClosed, msg, cid, os, lastSeen,
                   isStreaming, mu, wire, closes, deletes, lastToggle,
                   everRegistered, req>>

\* delete(clients, client.ID); clientsMux.Unlock() (lines 128-130)
CleanupDelete(c) ==
    /\ hpc[c] = "delete"
    /\ clients' = MapDelete(clients, cid[c])
    /\ deletes' = [deletes EXCEPT ![c] = @ + 1]
    /\ clientsMux' = Unlock
    /\ hpc' = [hpc EXCEPT ![c] = "done"]
    /\ UNCHANGED <<sockOpen, remoteClosed, msg, cid, os, lastSeen,
                   isStreaming, mu, wire, closes, lastToggle, everRegistered,
                   req>>

\* the agent closes its side of the socket
RemoteClose(c) ==
    /\ sockOpen[c] /\ ~remoteClosed[c]
    /\ remoteClosed' = [remoteClosed EXCEPT ![c] = TRUE]
    /\ UNCHANGED <<clients, clientsMux, hpc, sockOpen, msg, cid, os, lastSeen,
                   isStreaming, mu, wire, closes, deletes, lastToggle,
                   everRegistered, req>>

Handler(c) ==
    \/ Upgrade(c) \/ ReadInfoFail(c) \/ ReadInfoOk(c) \/ RegLock(c)
    \/ Register(c) \/ ReadMessage(c) \/ ReadError(c) \/ Decode(c)
    \/ LockLastSeen(c) \/ SetLastSeen(c) \/ CleanupLock(c)
    \/ CleanupDelete(c)

\* ------------------------------------------------------ control surface
\* Requests are numbered in the order they arrive.
NextToServe(w) ==
    /\ req[w].pc = "idle"
    /\ IF w = 1 THEN TRUE ELSE req[w - 1].pc # "idle"
    /\ Started < MaxGoroutines

Serving(w, kind, pc) == req[w].kind = kind /\ req[w].pc = pc

\* Conn.WriteJSON on an agent socket: fails once the server has closed the
\* socket, may fail or still succeed once the agent has closed its side
WriteOutcomes(c) ==
    IF ~sockOpen[c] THEN {FALSE}
    ELSE IF remoteClosed[c] THEN {TRUE, FALSE}
    ELSE {TRUE}

Sent(c, k) == [wire EXCEPT ![c][k] = @ + 1]

\* the list both listings build while holding the read lock
\* (lines 217-227, 241-251)
ClientList ==
    {[id |-> cid[clients[k]], os |-> os[clients[k]],
      lastSeen |-> lastSeen[clients[k]],
      isStreaming |-> isStreaming[clients[k]]] : k \in DOMAIN clients}

\* ---- sendCommand
\* c.ShouldBindJSON(&cmd), then clientsMux.RLock() (lines 261-267)
sendCommand_Bind(w) ==
    /\ NextToServe(w)
    /\ \/ /\ req' = [req EXCEPT ![w] = Answered(NewReq("sendCommand"),
                                                  StatusBadRequest)]
          /\ UNCHANGED clientsMux
       \/ /\ CanRLock
          /\ \E id \in TargetIDs :
                req' = [req EXCEPT ![w] = [@ EXCEPT !.kind = "sendCommand",
                           !.target = id, !.pc = "rlocked"]]
          /\ clientsMux' = RLock(W(w))
    /\ UNCHANGED <<clients, hpc, sockOpen, remoteClosed, msg, cid, os,
                   lastSeen, isStreaming, mu, wire, closes, deletes,
                   lastToggle, everRegistered>>

\* sendCommand releasing the read lock only when the client exists
sendCommand_Lookup_NoUnlock(w) ==
    /\ Serving(w, "sendCommand", "rlocked")
    /\ clientsMux' = IF Has(req[w].target) THEN RUnlock(W(w)) ELSE clientsMux
    /\ req' = [req EXCEPT ![w] =
                 IF Has(req[w].target)
                 THEN [@ EXCEPT !.cl = clients[req[w].target],
                                !.target = NoID, !.pc = "wantmu"]
                 ELSE Answered(req[w], StatusNotFound)]
    /\ UNCHANGED <<clients, hpc, sockOpen, remoteClosed, msg, cid, os,
                   lastSeen, isStreaming, mu, wire, closes, deletes,
                   lastToggle, everRegistered>>

\* sendCommand keeping the read lock while it writes to the client it found
sendCommand_Lookup_HoldRLock(w) ==
    /\ Serving(w, "sendCommand", "rlocked")
    /\ clientsMux' = IF Has(req[w].target) THEN clientsMux ELSE RUnlock(W(w))
    /\ req' = [req EXCEPT ![w] =
                 IF Has(req[w].target)
                 THEN [@ EXCEPT !.cl = clients[req[w].target],
                                !.target = NoID, !.pc = "wantmu"]
                 ELSE Answered(req[w], StatusNotFound)]
    /\ UNCHANGED <<clients, hpc, sockOpen, remoteClosed, msg, cid, os,
                   lastSeen, isStreaming, mu, wire, closes, deletes,
                   lastToggle, everRegistered>>

\* client, exists := clients[cmd.ClientID]; RUnlock; 404 if absent
\* (lines 268-274)
sendCommand_Lookup(w) ==
    /\ Serving(w, "sendCommand", "rlocked")
    /\ clientsMux' = RUnlock(W(w))
    /\ req' = [req EXCEPT ![w] =
                 IF Has(req[w].target)
                 THEN [@ EXCEPT !.cl = clients[req[w].target],
                                !.target = NoID, !.pc = "wantmu"]
                 ELSE Answered(req[w], StatusNotFound)]
    /\ UNCHANGED <<clients, hpc, sockOpen, remoteClosed, msg, cid, os,
                   lastSeen, isStreaming, mu, wire, closes, deletes,
                   lastToggle, everRegistered>>

\* sendCommand without client.mu.Lock(): it goes straight into the write
sendCommand_LockMu_NoLock(w) ==
    /\ Serving(w, "sendCommand", "wantmu")
    /\ req' = [req EXCEPT ![w].pc = "write"]
    /\ UNCHANGED <<clients, clientsMux, hpc, sockOpen, remoteClosed, msg, cid,
                   os, lastSeen, isStreaming, mu, wire, closes, deletes,
                   lastToggle, everRegistered>>

\* client.mu.Lock() (line 277); the goroutine is then inside WriteJSON
sendCommand_LockMu(w) ==
    /\ Serving(w, "sendCommand", "wantmu")
    /\ mu[req[w].cl] = NoOne
    /\ mu' = [mu EXCEPT ![req[w].cl] = W(w)]
    /\ req' = [req EXCEPT ![w].pc = "write"]
    /\ UNCHANGED <<clients, clientsMux, hpc, sockOpen, remoteClosed, msg, cid,
                   os, lastSeen, isStreaming, wire, closes, deletes,
                   lastToggle, everRegistered>>

\* sendCommand answering 200 without looking at the error of WriteJSON
sendCommand_Write_IgnoreError(w) ==
    /\ Serving(w, "sendCommand", "write")
    /\ \E ok \in WriteOutcomes(req[w].cl) :
          wire' = IF ok THEN Sent(req[w].cl, "cmd") ELSE wire
    /\ req' = [req EXCEPT ![w] = Answered(req[w], StatusOK)]
    /\ mu' = [mu EXCEPT ![req[w].cl] = NoOne]
    /\ UNCHANGED <<clients, clientsMux, hpc, sockOpen, remoteClosed, msg, cid,
                   os, lastSeen, isStreaming, closes, deletes, lastToggle,
                   everRegistered>>

\* WriteJSON returns; client.mu.Unlock(); 500 or 200 (lines 278-289)
sendCommand_Write(w) ==
    /\ Serving(w, "sendCommand", "write")
    /\ \E ok \in WriteOutcomes(req[w].cl) :
          /\ wire' = IF ok THEN Sent(req[w].cl, "cmd") ELSE wire
          /\ req' = [req EXCEPT ![w] = Answered(req[w],
                       IF ok THEN StatusOK ELSE StatusInternalServerError)]
    /\ mu' = [mu EXCEPT ![req[w].cl] = NoOne]
    /\ UNCHANGED <<clients, clientsMux, hpc, sockOpen, remoteClosed, msg, cid,
                   os, lastSeen, isStreaming, closes, deletes, lastToggle,
                   everRegistered>>

\* ---- toggleStream
\* c.ShouldBindJSON(&req), then clientsMux.RLock() (lines 294-300)
toggleStream_Bind(w) ==
    /\ NextToServe(w)
    /\ \/ /\ req' = [req EXCEPT ![w] = Answered(NewReq("toggleStream"),
                                                  StatusBadRequest)]
          /\ UNCHANGED clientsMux
       \/ /\ CanRLock
          /\ \E id \in TargetIDs, st \in BOOLEAN :
                req' = [req EXCEPT ![w] = [@ EXCEPT !.kind = "toggleStream",
                           !.target = id, !.start = st, !.pc = "rlocked"]]
          /\ clientsMux' = RLock(W(w))
    /\ UNCHANGED <<clients, hpc, sockOpen, remoteClosed, msg, cid, os,
                   lastSeen, isStreaming, mu, wire, closes, deletes,
                   lastToggle, everRegistered>>

\* toggleStream taking client.mu before it releases the read lock
toggleStream_Lookup_HoldRLock(w) ==
    /\ Serving(w, "toggleStream", "rlocked")
    /\ clientsMux' = IF Has(req[w].target) THEN clientsMux ELSE RUnlock(W(w))
    /\ req' = [req EXCEPT ![w] =
                 IF Has(req[w].target)
                 THEN [@ EXCEPT !.cl = clients[req[w].target],
                                !.target = NoID, !.pc = "wantmu"]
                 ELSE Answered(req[w], StatusNotFound)]
    /\ UNCHANGED <<clients, hpc, sockOpen, remoteClosed, msg, cid, os,
                   lastSeen, isStreaming, mu, wire, closes, deletes,
                   lastToggle, everRegistered>>

\* client, exists := clients[req.ClientID]; RUnlock; 404 if absent
\* (lines 301-307)
toggleStream_Lookup(w) ==
    /\ Serving(w, "toggleStream", "rlocked")
    /\ clientsMux' = RUnlock(W(w))
    /\ req' = [req EXCEPT ![w] =
                 IF Has(req[w].target)
                 THEN [@ EXCEPT !.cl = clients[req[w].target],
                                !.target = NoID, !.pc = "wantmu"]
                 ELSE Answered(req[w], StatusNotFound)]
    /\ UNCHANGED <<clients, hpc, sockOpen, remoteClosed, msg, cid, os,
                   lastSeen, isStreaming, mu, wire, closes, deletes,
                   lastToggle, everRegistered>>

\* client.mu.Lock() (line 309)
toggleStream_LockMu(w) ==
    /\ Serving(w, "toggleStream", "wantmu")
    /\ mu[req[w].cl] = NoOne
    /\ mu' = [mu EXCEPT ![req[w].cl] = W(w)]
    /\ lastToggle' = [lastToggle EXCEPT ![req[w].cl] = req[w].start]
    /\ req' = [req EXCEPT ![w].pc = "setflag"]
    /\ UNCHANGED <<clients, clientsMux, hpc, sockOpen, remoteClosed, msg, cid,
                   os, lastSeen, isStreaming, wire, closes, deletes,
                   everRegistered>>

\* toggleStream flipping the flag instead of storing req.Start
toggleStream_SetFlag_Flip(w) ==
    /\ Serving(w, "toggleStream", "setflag")
    /\ isStreaming' = [isStreaming EXCEPT ![req[w].cl] = ~@]
    /\ req' = [req EXCEPT ![w].pc = "write"]
    /\ UNCHANGED <<clients, clientsMux, hpc, sockOpen, remoteClosed, msg, cid,
                   os, lastSeen, mu, wire, closes, deletes, lastToggle,
                   everRegistered>>

\* client.IsStreaming = req.Start (line 310); then inside WriteJSON
toggleStream_SetFlag(w) ==
    /\ Serving(w, "toggleStream", "setflag")
    /\ isStreaming' = [isStreaming EXCEPT ![req[w].cl] = req[w].start]
    /\ req' = [req EXCEPT ![w].pc = "write"]
    /\ UNCHANGED <<clients, clientsMux, hpc, sockOpen, remoteClosed, msg, cid,
                   os, lastSeen, mu, wire, closes, deletes, lastToggle,
                   everRegistered>>

\* toggleStream putting the flag back when its write fails
toggleStream_Write_Rollback(w) ==
    /\ Serving(w, "toggleStream", "write")
    /\ \E ok \in WriteOutcomes(req[w].cl) :
          /\ wire' = IF ok
                     THEN Sent(req[w].cl,
                               IF req[w].start THEN "start" ELSE "stop")
                     ELSE wire
          /\ isStreaming' = IF ok THEN isStreaming
                            ELSE [isStreaming EXCEPT
                                     ![req[w].cl] = ~req[w].start]
          /\ req' = [req EXCEPT ![w] = Answered(req[w],
                       IF ok THEN StatusOK ELSE StatusInternalServerError)]
    /\ mu' = [mu EXCEPT ![req[w].cl] = NoOne]
    /\ UNCHANGED <<clients, clientsMux, hpc, sockOpen, remoteClosed, msg, cid,
                   os, lastSeen, closes, deletes, lastToggle, everRegistered>>

\* WriteJSON returns; client.mu.Unlock(); 500 or 200 (lines 311-322)
toggleStream_Write(w) ==
    /\ Serving(w, "toggleStream", "write")
    /\ \E ok \in WriteOutcomes(req[w].cl) :
          /\ wire' = IF ok
                     THEN Sent(req[w].cl,
                               IF req[w].start THEN "start" ELSE "stop")
                     ELSE wire
          /\ req' = [req EXCEPT ![w] = Answered(req[w],
                       IF ok THEN StatusOK ELSE StatusInternalServerError)]
    /\ mu' = [mu EXCEPT ![req[w].cl] = NoOne]
    /\ UNCHANGED <<clients, clientsMux, hpc, sockOpen, remoteClosed, msg, cid,
                   os, lastSeen, isStreaming, closes, deletes, lastToggle,
                   everRegistered>>

\* ---- getClients
\* clientsMux.RLock() (line 240)
getClients_RLock(w) ==
    /\ NextToServe(w)
    /\ CanRLock
    /\ clientsMux' = RLock(W(w))
    /\ req' = [req EXCEPT ![w] = [@ EXCEPT !.kind = "getClients",
                                            !.pc = "rlocked"]]
    /\ UNCHANGED <<clients, hpc, sockOpen, remoteClosed, msg, cid, os,
                   lastSeen, isStreaming, mu, wire, closes, deletes,
                   lastToggle, everRegistered>>

\* the copy loop, RUnlock, c.JSON(200, list) (lines 241-256)
getClients_Copy(w) ==
    /\ Serving(w, "getClients", "rlocked")
    /\ clientsMux' = RUnlock(W(w))
    /\ req' = [req EXCEPT ![w] = Answered(req[w], StatusOK)]
    /\ UNCHANGED <<clients, hpc, sockOpen, remoteClosed, msg, cid, os,
                   lastSeen, isStreaming, mu, wire, closes, deletes,
                   lastToggle, everRegistered>>

\* ---- handleClientStream
\* c.Param("client_id"); clientsMux.RLock() (lines 327-329)
handleClientStream_RLock(w) ==
    /\ NextToServe(w)
    /\ CanRLock
    /\ clientsMux' = RLock(W(w))
    /\ \E id \in TargetIDs :
          req' = [req EXCEPT ![w] = [@ EXCEPT !.kind = "handleClientStream",
                                              !.target = id, !.pc = "rlocked"]]
    /\ UNCHANGED <<clients, hpc, sockOpen, remoteClosed, msg, cid, os,
                   lastSeen, isStreaming, mu, wire, closes, deletes,
                   lastToggle, everRegistered>>

\* handleClientStream answering 200 without testing exists
handleClientStream_Lookup_NoCheck(w) ==
    /\ Serving(w, "handleClientStream", "rlocked")
    /\ clientsMux' = RUnlock(W(w))
    /\ req' = [req EXCEPT ![w] = Answered(req[w], StatusOK)]
    /\ UNCHANGED <<clients, hpc, sockOpen, remoteClosed, msg, cid, os,
                   lastSeen, isStreaming, mu, wire, closes, deletes,
                   lastToggle, everRegistered>>

\* client, exists := clients[clientID]; RUnlock; 404 or 200 (lines 330-340)
handleClientStream_Lookup(w) ==
    /\ Serving(w, "handleClientStream", "rlocked")
    /\ clientsMux' = RUnlock(W(w))
    /\ req' = [req EXCEPT ![w] = Answered(req[w],
                 IF Has(req[w].target) THEN StatusOK ELSE StatusNotFound)]
    /\ UNCHANGED <<clients, hpc, sockOpen, remoteClosed, msg, cid, os,
                   lastSeen, isStreaming, mu, wire, closes, deletes,
                   lastToggle, everRegistered>>

\* ---- handleAdminConnection
\* upgrader.Upgrade fails: return (lines 157-161)
handleAdminConnection_UpgradeFail(w) ==
    /\ NextToServe(w)
    /\ req' = [req EXCEPT ![w] =
                 Answered(NewReq("handleAdminConnection"), 0)]
    /\ UNCHANGED <<clients, clientsMux, hpc, sockOpen, remoteClosed, msg, cid,
                   os, lastSeen, isStreaming, mu, wire, closes, deletes,
                   lastToggle, everRegistered>>

\* Upgrade succeeds; sendClientList: clientsMux.RLock() (lines 157-165, 216)
handleAdminConnection_Upgrade(w) ==
    /\ NextToServe(w)
    /\ CanRLock
    /\ clientsMux' = RLock(W(w))
    /\ req' = [req EXCEPT ![w] = [@ EXCEPT !.kind = "handleAdminConnection",
                                            !.pc = "listrlocked"]]
    /\ UNCHANGED <<clients, hpc, sockOpen, remoteClosed, msg, cid, os,
                   lastSeen, isStreaming, mu, wire, closes, deletes,
                   lastToggle, everRegistered>>

\* sendClientList: the copy loop, RUnlock, WriteJSON to the admin socket
\* (lines 217-235)
sendClientList(w) ==
    /\ Serving(w, "handleAdminConnection", "listrlocked")
    /\ clientsMux' = RUnlock(W(w))
    /\ req' = [req EXCEPT ![w].pc = "aread"]
    /\ UNCHANGED <<clients, hpc, sockOpen, remoteClosed, msg, cid, os,
                   lastSeen, isStreaming, mu, wire, closes, deletes,
                   lastToggle, everRegistered>>

\* conn.ReadMessage() on the admin socket fails: break, deferred conn.Close()
\* (lines 168-172, 162)
handleAdminConnection_ReadError(w) ==
    /\ Serving(w, "handleAdminConnection", "aread")
    /\ req' = [req EXCEPT ![w] =
                 Answered(NewReq("handleAdminConnection"), req[w].resp)]
    /\ UNCHANGED <<clients, clientsMux, hpc, sockOpen, remoteClosed, msg, cid,
                   os, lastSeen, isStreaming, mu, wire, closes, deletes,
                   lastToggle, everRegistered>>

\* a message that json.Unmarshal rejects: continue (lines 175-179)
handleAdminConnection_BadMessage(w) ==
    /\ Serving(w, "handleAdminConnection", "aread")
    /\ req[w].msgs < MaxAdminMsgs
    /\ req' = [req EXCEPT ![w].msgs = @ + 1]
    /\ UNCHANGED <<clients, clientsMux, hpc, sockOpen, remoteClosed, msg, cid,
                   os, lastSeen, isStreaming, mu, wire, closes, deletes,
                   lastToggle, everRegistered>>

\* a command message is read and decoded; clientsMux.RLock()
\* (lines 168-182)
handleAdminConnection_Read(w) ==
    /\ Serving(w, "handleAdminConnection", "aread")
    /\ req[w].msgs < MaxAdminMsgs
    /\ CanRLock
    /\ clientsMux' = RLock(W(w))
    /\ \E id \in TargetIDs :
          req' = [req EXCEPT ![w] = [@ EXCEPT !.msgs = @ + 1, !.target = id,
                                              !.cl = 0, !.pc = "rlocked"]]
    /\ UNCHANGED <<clients, hpc, sockOpen, remoteClosed, msg, cid, os,
                   lastSeen, isStreaming, mu, wire, closes, deletes,
                   lastToggle, everRegistered>>

\* client, exists := clients[cmd.ClientID]; RUnlock; if absent a
\* CommandResponse with Status 404 goes to the admin (lines 183-195)
handleAdminConnection_Lookup(w) ==
    /\ Serving(w, "handleAdminConnection", "rlocked")
    /\ clientsMux' = RUnlock(W(w))
    /\ req' = [req EXCEPT ![w] =
                 IF Has(req[w].target)
                 THEN [@ EXCEPT !.cl = clients[req[w].target],
                                !.target = NoID, !.pc = "wantmu"]
                 ELSE [@ EXCEPT !.resp = StatusNotFound, !.pc = "aread"]]
    /\ UNCHANGED <<clients, hpc, sockOpen, remoteClosed, msg, cid, os,
                   lastSeen, isStreaming, mu, wire, closes, deletes,
                   lastToggle, everRegistered>>

\* client.mu.Lock() (line 198); the goroutine is then inside WriteJSON
handleAdminConnection_LockMu(w) ==
    /\ Serving(w, "handleAdminConnection", "wantmu")
    /\ mu[req[w].cl] = NoOne
    /\ mu' = [mu EXCEPT ![req[w].cl] = W(w)]
    /\ req' = [req EXCEPT ![w].pc = "write"]
    /\ UNCHANGED <<clients, clientsMux, hpc, sockOpen, remoteClosed, msg, cid,
                   os, lastSeen, isStreaming, wire, closes, deletes,
                   lastToggle, everRegistered>>

\* WriteJSON returns; client.mu.Unlock() on both paths; nothing is reported
\* to the admin (lines 199-207)
handleAdminConnection_Write(w) ==
    /\ Serving(w, "handleAdminConnection", "write")
    /\ \E ok \in WriteOutcomes(req[w].cl) :
          wire' = IF ok THEN Sent(req[w].cl, "cmd") ELSE wire
    /\ req' = [req EXCEPT ![w] = [@ EXCEPT !.target = NoID, !.cl = 0,
                                            !.pc = "aread"]]
    /\ mu' = [mu EXCEPT ![req[w].cl] = NoOne]
    /\ UNCHANGED <<clients, clientsMux, hpc, sockOpen, remoteClosed, msg, cid,
                   os, lastSeen, isStreaming, closes, deletes, lastToggle,
                   everRegistered>>

Request(w) ==
    \/ sendCommand_Bind(w) \/ sendCommand_Lookup(w)
    \/ sendCommand_LockMu(w) \/ sendCommand_Write(w)
    \/ toggleStream_Bind(w) \/ toggleStream_Lookup(w)
    \/ toggleStream_LockMu(w) \/ toggleStream_SetFlag(w)
    \/ toggleStream_Write(w)
    \/ getClients_RLock(w) \/ getClients_Copy(w)
    \/ handleClientStream_RLock(w) \/ handleClientStream_Lookup(w)
    \/ handleAdminConnection_UpgradeFail(w) \/ handleAdminConnection_Upgrade(w)
    \/ sendClientList(w) \/ handleAdminConnection_ReadError(w)
    \/ handleAdminConnection_BadMessage(w) \/ handleAdminConnection_Read(w)
    \/ handleAdminConnection_Lookup(w) \/ handleAdminConnection_LockMu(w)
    \/ handleAdminConnection_Write(w)

Next ==
    \/ \E c \in Conns : Handler(c) \/ RemoteClose(c)
    \/ \E w \in Reqs : Request(w)

Spec == Init /\ [][Next]_vars

\* ------------------------------------------------------------ positions
\* request w is inside client.Conn.WriteJSON on agent socket c
\* (lines 199-202, 278-281, 311-314)
InsideWrite(w, c) == req[w].pc = "write" /\ req[w].cl = c

\* request w is blocked in client.mu.Lock() of connection c
WaitingForMu(w, c) == req[w].pc = "wantmu" /\ req[w].cl = c

\* clients holds connection c under its own id
Registered(c) == Has(cid[c]) /\ clients[cid[c]] = c

\* the handler of c is inside the for loop of handleClientMessages
InReadLoop(c) == hpc[c] \in {"read", "decode", "lockmu", "setLastSeen"}

\* ------------------------------------------------------------------ C1
\* C1: for every agent socket, at most one goroutine (sendCommand,
\* toggleStream or the relay of handleAdminConnection) is inside the socket
\* write at any time, and the one inside it holds that connection's mu.
C1_WritersExclusive ==
    \A c \in Conns :
        /\ Cardinality({w \in Reqs : InsideWrite(w, c)}) <= 1
        /\ \A w \in Reqs : InsideWrite(w, c) => mu[c] = W(w)

\* a writer is inside the write while a writer of another kind waits for
\* the same connection's mu
C1_Witness ==
    \E c \in Conns, w1, w2 \in Reqs :
        /\ InsideWrite(w1, c) /\ WaitingForMu(w2, c)
        /\ req[w1].kind # req[w2].kind

\* ------------------------------------------------------------------ C2
\* request w holds the read lock and is about to look up the id of c
LooksUp(w, c) ==
    /\ req[w].pc = "rlocked"
    /\ req[w].kind # "getClients"
    /\ req[w].target = cid[c]

\* C2: once the read loop of a connection has seen the read error and its
\* cleanup has removed the entry, every lookup of that id that starts after
\* the cleanup returns NotFound.  (A request that holds the read lock while
\* the cleanup is over took the lock after the cleanup's delete.)
C2_LookupAfterCleanupNotFound ==
    \A c \in Conns, w \in Reqs :
        hpc[c] = "done" /\ LooksUp(w, c) => ~Has(req[w].target)

\* ------------------------------------------------------------------ C3
\* C3: in every reachable state a connection is in the registry if and only
\* if its socket is open, during accept/handshake and cleanup included.
C3_RegisteredIffOpen ==
    \A c \in Conns : Registered(c) <=> sockOpen[c]

\* ------------------------------------------------------------------ C4
\* a step that takes a key out of the registry
RemovesAnEntry == \E k \in DOMAIN clients : k \notin DOMAIN clients'

\* C4: for every connection the read loop ends once and its cleanup calls
\* Conn.Close() once and delete(clients, ID) once, and that delete takes the
\* connection's own entry out of the registry; the entry of a registered
\* connection leaves the registry by that cleanup only, and no step of a
\* request changes the registry or a socket.
C4_SoleCleanupPath ==
    /\ [](\A c \in Conns :
            /\ closes[c] <= 1 /\ deletes[c] <= 1
            /\ hpc[c] = "done" =>
                   closes[c] = 1 /\ deletes[c] = 1 /\ ~sockOpen[c])
    /\ [][/\ \A c \in Conns :
                /\ sockOpen[c] /\ ~sockOpen'[c] /\ cid[c] # NoID =>
                       hpc[c] = "read" /\ hpc'[c] = "dellock"
                /\ deletes'[c] # deletes[c] =>
                       /\ hpc[c] = "delete" /\ hpc'[c] = "done"
                       /\ Registered(c) /\ RemovesAnEntry
                /\ Registered(c) /\ ~Registered(c)' =>
                       hpc[c] = "delete" /\ hpc'[c] = "done"
          /\ RemovesAnEntry =>
                \E c \in Conns : hpc[c] = "delete" /\ hpc'[c] = "done"
          /\ req' # req =>
                UNCHANGED <<clients, sockOpen, closes, deletes, hpc>>]_vars

\* ------------------------------------------------------------------ C5
LookupKinds == {"sendCommand", "toggleStream", "handleClientStream",
                "handleAdminConnection"}

\* C5: a lookup of an id that was never registered fails with NotFound (404)
\* in sendCommand, toggleStream, handleClientStream and the admin channel,
\* whatever else is registered; so a request that got hold of a connection
\* looked up an id that was registered.
C5_NeverRegisteredNotFound ==
    /\ [](\A w \in Reqs :
            req[w].cl # 0 => cid[req[w].cl] \in everRegistered)
    /\ [][\A w \in Reqs :
            /\ req[w].pc = "rlocked" /\ req'[w].pc # "rlocked"
            /\ req[w].kind \in LookupKinds
            /\ req[w].target \notin everRegistered
            => /\ req'[w].resp = StatusNotFound
               /\ req'[w].cl = 0
               /\ req'[w].pc \in {"done", "aread"}]_vars

\* a request for an id that was never registered was answered 404 while
\* another client is registered
C5_Witness ==
    \E w \in Reqs :
        /\ req[w].pc \in {"done", "aread"}
        /\ req[w].resp = StatusNotFound
        /\ req[w].target \in TargetIDs \ everRegistered
        /\ DOMAIN clients # {}

\* ------------------------------------------------------------------ C6
\* C6: a sendCommand whose client_id is not in the registry answers 404 and
\* changes nothing: registry, its lock, every entry's LastSeen and
\* IsStreaming, every socket and everything written to it are as before.
C6_NotFoundChangesNothing ==
    [][\A w \in Reqs :
          /\ req'[w] # req[w]
          /\ req'[w].kind = "sendCommand"
          /\ \/ req[w].pc = "idle"
             \/ req[w].pc = "rlocked" /\ ~Has(req[w].target)
          => /\ UNCHANGED <<clients, cid, lastSeen, isStreaming, sockOpen,
                            mu, wire>>
             /\ req[w].pc = "rlocked" =>
                   /\ req'[w].pc = "done"
                   /\ req'[w].resp = StatusNotFound
                   /\ W(w) \notin clientsMux'.readers
                   /\ clientsMux'.writer = NoOne]_vars

\* sendCommand was answered 404 for an unknown id while a client with a
\* command on its wire and the streaming flag set is registered
C6_Witness ==
    \E w \in Reqs, c \in Conns :
        /\ req[w].kind = "sendCommand" /\ req[w].pc = "done"
        /\ req[w].resp = StatusNotFound /\ req[w].target = UnknownID
        /\ Registered(c) /\ isStreaming[c] /\ wire[c]["start"] = 1

\* ------------------------------------------------------------------ C7
\* a dispatch (sendCommand, toggleStream) to connection c answered 500
FailedDispatch(w, c) ==
    /\ req[w].pc = "done" /\ req[w].cl = c
    /\ req[w].resp = StatusInternalServerError

\* C7: a dispatch whose write fails answers 500 and does not itself remove
\* the entry or close the socket; the entry stays registered until that
\* connection's read loop observes a read error.
C7_EntryStaysUntilReadError ==
    [][\A w \in Reqs :
          /\ req[w].pc = "write" /\ req'[w].pc = "done" =>
                /\ UNCHANGED <<clients, sockOpen>>
                /\ wire' = wire => req'[w].resp = StatusInternalServerError
          /\ \A c \in Conns :
                FailedDispatch(w, c) /\ Registered(c) /\ InReadLoop(c)
                => Has(cid[c])']_vars

\* ------------------------------------------------------------------ C8
\* toggleStream request w wrote to connection c with req.Start = st
Toggled(w, c, st) ==
    /\ req[w].kind = "toggleStream" /\ req[w].pc = "done"
    /\ req[w].cl = c /\ req[w].start = st

\* C8: the streaming flag of a connection equals the argument of the last
\* toggleStream call that entered its critical section (true then false
\* leaves false, true twice leaves true), and every call issues one stream
\* command: the commands on the wire are those of the calls answered 200.
C8_FlagIsLastArgument ==
    \A c \in Conns :
        /\ (\A w \in Reqs : ~(Serving(w, "toggleStream", "setflag")
                               /\ req[w].cl = c))
               => isStreaming[c] = lastToggle[c]
        /\ \A w \in Reqs :
               Serving(w, "toggleStream", "write") /\ req[w].cl = c
               => isStreaming[c] = req[w].start
        /\ \A w \in Reqs, st \in BOOLEAN :
               Toggled(w, c, st) =>
                   req[w].resp \in {StatusOK, StatusInternalServerError}
        /\ wire[c]["start"] = Cardinality({w \in Reqs :
               Toggled(w, c, TRUE) /\ req[w].resp = StatusOK})
        /\ wire[c]["stop"] = Cardinality({w \in Reqs :
               Toggled(w, c, FALSE) /\ req[w].resp = StatusOK})

\* toggleStream(id, true) was called twice on a registered client: the flag
\* is true and two start commands are on the wire
C8_Witness ==
    \E c \in Conns :
        /\ Registered(c) /\ isStreaming[c] /\ wire[c]["start"] = 2
        /\ \A w \in Reqs : Toggled(w, c, TRUE) /\ req[w].resp = StatusOK

\* ------------------------------------------------------------------ C9
\* the registrations and removals carried out so far
Registrations ==
    Cardinality({c \in Conns : InReadLoop(c)
                                 \/ hpc[c] \in {"dellock", "delete", "done"}})
Removals == Cardinality({c \in Conns : deletes[c] > 0})

\* no handler is in the middle of a registration or of a removal
RegistryQuiet ==
    \A c \in Conns : hpc[c] \notin {"reglock", "insert", "dellock", "delete"}

\* C9: once the concurrent registrations and removals have finished, the
\* number of registry entries is the number of registrations minus the
\* number of removals (none is lost).
C9_CountIsNetInserts ==
    RegistryQuiet => Cardinality(DOMAIN clients) = Registrations - Removals

\* ----------------------------------------------------------------- C10
\* the connection was built and the server has not closed its socket
Live(c) == sockOpen[c] /\ cid[c] # NoID

\* C10: two distinct live connections never share an id, and two registered
\* connections show as exactly two entries of a listing.
C10_UniqueIDs ==
    \A c1, c2 \in Conns :
        c1 # c2 =>
            /\ Live(c1) /\ Live(c2) => cid[c1] # cid[c2]
            /\ InReadLoop(c1) /\ InReadLoop(c2) => Cardinality(ClientList) = 2

\* ----------------------------------------------------------------- C11
\* whole messages the server has written to agent socket c
WireTotal(c) == wire[c]["cmd"] + wire[c]["start"] + wire[c]["stop"]

\* C11: a connection whose handler has reached the read loop, and whose agent
\* is still connected, has been sent a server-initiated command (the
\* metadata request) before the loop's first read.
C11_BootstrapBeforeFirstRead ==
    \A c \in Conns :
        InReadLoop(c) /\ ~remoteClosed[c] => WireTotal(c) >= 1

\* ----------------------------------------------------------------- C12
\* the read loop of c has finished processing a system_info response and is
\* back in ReadMessage
ProcessedSystemInfo(c) == hpc[c] = "read" /\ msg[c] = "system_info"

\* C12: once the read loop of a registered client has processed a
\* well-formed system_info response, a clients listing taken while the
\* client is registered shows the reported values (os = ReportedOS) for
\* that id.
C12_SystemInfoMerged ==
    \A c \in Conns :
        ProcessedSystemInfo(c) /\ Registered(c)
        => \E e \in ClientList : e.id = cid[c] /\ e.os = ReportedOS

\* ----------------------------------------------------------------- C13
\* the read loop of c is at json.Unmarshal with a message it cannot decode
DecodeFails(c) == hpc[c] = "decode" /\ msg[c] = "garbage"

\* C13: a message that fails to decode is dropped: the step that finds the
\* failure goes back to ReadMessage and changes neither the registry, nor the
\* socket, nor the connection's last-activity, metadata or streaming flag;
\* the socket is open throughout the loop and only a read error ends it.
C13_DecodeFailureDropped ==
    /\ [](\A c \in Conns : InReadLoop(c) => sockOpen[c] /\ closes[c] = 0)
    /\ [][\A c \in Conns :
            /\ DecodeFails(c) /\ hpc'[c] # "decode" =>
                  /\ hpc'[c] = "read"
                  /\ UNCHANGED <<clients, clientsMux, sockOpen, cid, os,
                                 lastSeen, isStreaming, mu, closes, deletes>>
            /\ InReadLoop(c) /\ ~InReadLoop(c)' =>
                  /\ hpc[c] = "read" /\ hpc'[c] = "dellock"
                  /\ remoteClosed[c]]_vars

\* a registered connection is back in ReadMessage, its socket open, after
\* it dropped a message that did not decode
C13_Witness ==
    \E c \in Conns :
        /\ hpc[c] = "read" /\ msg[c] = "garbage"
        /\ Registered(c) /\ sockOpen[c] /\ ~remoteClosed[c]

\* ----------------------------------------------------------------- C14
\* goroutine g holds clientsMux, for writing or for reading
HoldsRegistry(g) == clientsMux.writer = g \/ g \in clientsMux.readers

\* C14: a goroutine holds the registry lock only at the map operations
\* (insert, delete, lookup, the listing's copy): never inside a socket read,
\* write or close, and never while it waits for a connection's mu; so a
\* pending write to an agent leaves the registry lock free for the others.
C14_NoRegistryLockAcrossIO ==
    /\ [](/\ \A c \in Conns :
               HoldsRegistry(H(c)) => hpc[c] \in {"insert", "delete"}
          /\ \A w \in Reqs :
               HoldsRegistry(W(w)) => req[w].pc \in {"rlocked", "listrlocked"})
    /\ [][/\ \A c \in Conns :
                closes'[c] # closes[c] =>
                    ~HoldsRegistry(H(c)) /\ ~HoldsRegistry(H(c))'
          /\ \A w \in Reqs :
                req[w].pc = "write" /\ req'[w].pc # "write" =>
                    ~HoldsRegistry(W(w)) /\ clientsMux' = clientsMux]_vars

\* a registration holds the registry write lock while a request is inside
\* a write to another agent's socket
C14_Witness ==
    \E w \in Reqs, c1, c2 \in Conns :
        /\ InsideWrite(w, c1) /\ c2 # c1
        /\ hpc[c2] = "insert" /\ clientsMux.writer = H(c2)

\* ----------------------------------------------------------------- C15
\* C15: LastSeen and IsStreaming of a connection that has been built are
\* written only by a goroutine that holds that connection's mu, and the
\* registry map is changed only by a handler that holds clientsMux for
\* writing, with no reader inside.
C15_MutationsUnderLocks ==
    /\ [](/\ \A c \in Conns :
               /\ hpc[c] = "setLastSeen" => mu[c] = H(c)
               /\ hpc[c] \in {"insert", "delete"} =>
                      clientsMux = [writer |-> H(c), readers |-> {}]
          /\ \A w \in Reqs :
               req[w].pc = "setflag" => mu[req[w].cl] = W(w))
    /\ [][/\ \A c \in Conns :
                /\ lastSeen'[c] # lastSeen[c] /\ hpc[c] # "readinfo" =>
                       hpc[c] = "setLastSeen" /\ mu[c] = H(c)
                /\ isStreaming'[c] # isStreaming[c] =>
                       \E w \in Reqs : /\ Serving(w, "toggleStream", "setflag")
                                       /\ req[w].cl = c /\ mu[c] = W(w)
          /\ clients' # clients =>
                \E c \in Conns : /\ hpc[c] \in {"insert", "delete"}
                                 /\ hpc'[c] # hpc[c]
                                 /\ clientsMux.writer = H(c)]_vars

\* the read loop holds the connection's mu to write LastSeen while a
\* toggleStream call waits for the same mu
C15_Witness ==
    \E c \in Conns, w \in Reqs :
        /\ hpc[c] = "setLastSeen" /\ mu[c] = H(c)
        /\ WaitingForMu(w, c) /\ req[w].kind = "toggleStream"

\* ----------------------------------------------------------------- C16
\* request w holds the read lock inside the copy loop of a listing
\* (lines 218-227, 242-251)
Copying(w) ==
    \/ Serving(w, "getClients", "rlocked")
    \/ Serving(w, "handleAdminConnection", "listrlocked")

\* connection c is an entry the copy loop visits
Listed(c) == \E k \in DOMAIN clients : clients[k] = c

\* a goroutine is between client.mu.Lock and Unlock, writing LastSeen
\* (line 148) or IsStreaming (line 310) of c
WritingFields(c) ==
    \/ hpc[c] = "setLastSeen"
    \/ \E w \in Reqs : Serving(w, "toggleStream", "setflag") /\ req[w].cl = c

\* C16: while a listing copies the entries, no read loop and no toggleStream
\* is writing the last-activity or streaming flag of an entry it reads.
C16_ListingExcludesWriters ==
    \A w \in Reqs, c \in Conns :
        Copying(w) /\ Listed(c) => ~WritingFields(c)

\* ----------------------------------------------------------------- C17
\* C17: an accepted connection whose client-info message cannot be read is
\* closed and its handler returns: it is never inserted into the registry,
\* no read loop runs for it, and the step leaves the registry unchanged.
C17_FailedHandshakeNotRegistered ==
    /\ [](\A c \in Conns :
            hpc[c] = "rejected" =>
                /\ ~sockOpen[c] /\ closes[c] = 1 /\ deletes[c] = 0
                /\ cid[c] = NoID /\ ~Listed(c))
    /\ [][\A c \in Conns :
            /\ hpc[c] = "readinfo" /\ closes'[c] # closes[c] =>
                  /\ hpc'[c] = "rejected"
                  /\ UNCHANGED <<clients, clientsMux, everRegistered>>
            /\ hpc[c] = "rejected" => hpc'[c] = "rejected"]_vars

\* a connection was rejected at the handshake while another one is
\* registered and in its read loop
C17_Witness ==
    \E c1, c2 \in Conns :
        /\ hpc[c1] = "rejected" /\ closes[c1] = 1
        /\ Registered(c2) /\ InReadLoop(c2)

\* ----------------------------------------------------------------- C18
\* C18: toggleStream has stored req.Start before it writes and does not put
\* the old value back: when the call returns, with 200 or with 500 after a
\* failed write, the flag of the connection it found equals its argument.
C18_FlagKeptOnWriteFailure ==
    [][\A w \in Reqs :
          Serving(w, "toggleStream", "write") /\ req'[w].pc = "done" =>
              /\ isStreaming'[req[w].cl] = req[w].start
              /\ req'[w].resp = StatusInternalServerError =>
                     wire' = wire /\ isStreaming' = isStreaming]_vars

\* a toggleStream(id, true) whose write failed was answered 500: nothing is
\* on the wire and the flag is true
C18_Witness ==
    \E w \in Reqs, c \in Conns :
        /\ Toggled(w, c, TRUE) /\ req[w].resp = StatusInternalServerError
        /\ isStreaming[c] /\ wire[c]["start"] = 0

\* ----------------------------------------------------------------- C19
\* the number of locks (clientsMux, the connections' mu) goroutine g holds
LocksHeld(g) ==
    (IF HoldsRegistry(g) THEN 1 ELSE 0)
        + Cardinality({c \in Conns : mu[c] = g})

\* the handler of c is blocked in clientsMux.Lock() or client.mu.Lock()
BlockedHandler(c) ==
    \/ hpc[c] \in {"reglock", "dellock"} /\ ~CanLock
    \/ hpc[c] = "lockmu" /\ mu[c] # NoOne

\* request w is blocked in client.mu.Lock()
BlockedRequest(w) == req[w].pc = "wantmu" /\ mu[req[w].cl] # NoOne

\* C19: no goroutine holds two locks at once, and a goroutine that holds a
\* lock is never waiting for another one, so no cycle of waiting goroutines
\* can form; a goroutine inside a write to client A holds A's mu and nothing
\* else, so it keeps nobody from the registry or from another client's mu.
C19_OneLockAtATime ==
    /\ \A c \in Conns :
          /\ LocksHeld(H(c)) <= 1
          /\ LocksHeld(H(c)) = 1 =>
                 ~BlockedHandler(c)
                 /\ hpc[c] \in {"insert", "delete", "setLastSeen"}
    /\ \A w \in Reqs :
          /\ LocksHeld(W(w)) <= 1
          /\ LocksHeld(W(w)) = 1 =>
                 ~BlockedRequest(w)
                 /\ req[w].pc \in {"rlocked", "listrlocked", "setflag",
                                   "write"}
          /\ \A a \in Conns :
                InsideWrite(w, a) =>
                    /\ ~HoldsRegistry(W(w))
                    /\ \A b \in Conns \ {a} : mu[b] # W(w)

\* a request is inside a write to one client while the cleanup of another
\* client holds the registry lock for its delete
C19_Witness ==
    \E w \in Reqs, a, b \in Conns :
        /\ InsideWrite(w, a) /\ mu[a] = W(w) /\ b # a
        /\ hpc[b] = "delete" /\ clientsMux.writer = H(b)

\* ----------------------------------------------------------------- C20
\* request w found connection c before the cleanup of c ran and is inside
\* its write after the cleanup closed the socket and deleted the entry
StaleWrite(w, c) ==
    /\ InsideWrite(w, c)
    /\ ~sockOpen[c] /\ hpc[c] = "done"

\* C20: a write that a dispatcher performs after the server has closed the
\* socket fails: sendCommand and toggleStream answer 500, never 200, nothing
\* reaches the wire, and the dispatcher does not put the entry back into the
\* registry.
C20_StaleDispatchFails ==
    [][\A w \in Reqs :
          req[w].pc = "write" /\ req'[w].pc # "write"
          /\ ~sockOpen[req[w].cl] =>
              /\ wire' = wire
              /\ UNCHANGED <<clients, everRegistered, sockOpen>>
              /\ req[w].kind \in {"sendCommand", "toggleStream"} =>
                     req'[w].resp = StatusInternalServerError]_vars

\* a sendCommand is inside its write to a connection that was cleaned up
\* after the lookup, and the id is no longer in the registry
C20_Witness ==
    \E w \in Reqs, c \in Conns :
        /\ StaleWrite(w, c) /\ req[w].kind = "sendCommand"
        /\ ~Has(cid[c]) /\ deletes[c] = 1

====
